---------------------------- MODULE Spec2Model ----------------------------
(***************************************************************************)
(* The user service of Microstore (src/user-service/src/index.js): the     *)
(* users table, the clock that jsonwebtoken reads, and the HTTP handlers   *)
(* /register, /login, /refresh-token and /logout.  Every handler is an     *)
(* async function; its steps are cut where it awaits the store, so that    *)
(* two requests interleave exactly where Node can interleave them.         *)
(* Behind the user service follow the product service's router, the Lambda *)
(* authorizer and the interceptors of the frontend's api instance, each    *)
(* with a specification of its own.                                        *)
(*                                                                         *)
(* Library behaviour the handlers rest on:                                 *)
(*  - jsonwebtoken signs HS256 tokens deterministically from the payload   *)
(*    (claims, iat, exp in whole clock units) and the secret; verify       *)
(*    rejects a wrong signature and a token with now >= exp.               *)
(*  - bcryptjs keys its hash with the first 72 bytes of the input.  A JWT  *)
(*    starts with the 36-character header and a dot, so the 72 bytes end   *)
(*    inside the sub claim of the payload ({"sub":"<uuid>",...): type,     *)
(*    iat, exp and the signature lie behind the cut.                       *)
(*  - bcrypt.compare rejects (throws) when its first argument is not a     *)
(*    string.                                                              *)
(***************************************************************************)
EXTENDS Integers, Sequences, FiniteSets, TLC

VARIABLES
    users,      \* the users table: a sequence of rows, id = position
    now,        \* the clock, in the unit of iat/exp
    reqs,       \* per connection slot: the request being handled / answered
    resp,       \* the response being written to the wire, NoResp between
    issued,     \* history: every token a 200 response has handed out
    spent,      \* history: the refresh token last replaced by a different one
    loggedOut,  \* history: ids logged out and not logged in since
    env,        \* the deployment: which router file the product service
                \* mounts, the ACCESS_TOKEN_SECRET the Lambda functions read
    products,   \* the products table and the number of rows ever inserted
    storage,    \* the browser's localStorage: accessToken, refreshToken, user
    calls,      \* the frontend's requests through the api instance
    orders,     \* the orders table, the number of rows ever inserted and the
                \* POST / of the order service that is being handled
    cart        \* state.cart of the frontend's order slice

vars ==
    <<users, now, reqs, resp, issued, spent, loggedOut, env, products, storage, calls,
      orders, cart>>

\* the state outside the user service
outside == <<env, products, storage, calls, orders, cart>>

(***************************************************************************)
(* Bounds of the model.                                                    *)
(***************************************************************************)
MaxTime == 2

Slots == {"c1", "c2"}
Usernames == {"alice", "bob"}
PasswordTexts == {"pw1", "pw2"}
Undefined == "<undefined>"
RoleInputs == {Undefined, "admin", "Admin", "superadmin"}

(***************************************************************************)
(* Configuration (index.js 13-16).  The TTLs are configured durations; the *)
(* model counts them in clock ticks.                                       *)
(***************************************************************************)
\* one secret configured for both kinds of token
SharedSecret == "refresh_secret"
ACCESS_TOKEN_SECRET == "access_secret"
REFRESH_TOKEN_SECRET == "refresh_secret"
ACCESS_TOKEN_TTL == 1
REFRESH_TOKEN_TTL == 2

(***************************************************************************)
(* JavaScript values that reach bcrypt and jsonwebtoken.                   *)
(***************************************************************************)
JsUndefined == [js |-> "undefined"]
JsNumber == [js |-> "number"]
JsString(s) == [js |-> "string", text |-> s]

Falsy(v) == v.js = "undefined" \/ v = JsString("")

(***************************************************************************)
(* jsonwebtoken                                                            *)
(***************************************************************************)
JwtSign(claims, secret, ttl) ==
    [js |-> "string",
     jwt |-> [secret |-> secret, claims |-> claims, iat |-> now, exp |-> now + ttl]]

IsJwt(v) == "jwt" \in DOMAIN v

\* jwt.verify with the expiry check left out
JwtVerifyIgnoringExpiry(v, secret) ==
    IF ~IsJwt(v) THEN "throw"
    ELSE IF v.jwt.secret # secret THEN "throw"
    ELSE "ok"

\* jwt.verify that still accepts a token in the clock unit of its exp
JwtVerifyLateExpiry(v, secret) ==
    IF ~IsJwt(v) THEN "throw"
    ELSE IF v.jwt.secret # secret THEN "throw"
    ELSE IF now > v.jwt.exp THEN "throw"
    ELSE "ok"
\* jwt.verify: "ok" or "throw" (malformed, bad signature, expired)
JwtVerify(v, secret) ==
    IF ~IsJwt(v) THEN "throw"
    ELSE IF v.jwt.secret # secret THEN "throw"
    ELSE IF now >= v.jwt.exp THEN "throw"
    ELSE "ok"

PayloadType(v) == IF "type" \in DOMAIN v.jwt.claims THEN v.jwt.claims.type ELSE Undefined

(***************************************************************************)
(* bcryptjs                                                                *)
(***************************************************************************)
\* the first 72 bytes of a string: a short text whole; of a JWT the header,
\* the dot and 35 base64 characters, that is {"sub":" and the first 18
\* characters of the uuid (distinct rows differ there: 60 random bits)
WholeText(v) == v

First72(v) ==
    IF IsJwt(v) THEN [js |-> "string", head |-> [alg |-> "HS256", sub |-> v.jwt.claims.sub]]
    ELSE v

BcryptHash(v) == [alg |-> "bcrypt", key |-> First72(v)]

\* a comparison of the text with the stored hash string itself
BcryptCompareByEquality(v, h) ==
    IF v.js # "string" THEN "throw"
    ELSE IF v = h THEN "true"
    ELSE "false"
\* bcrypt.compare: "true", "false", or "throw" for a non-string argument
BcryptCompare(v, h) ==
    IF v.js # "string" THEN "throw"
    ELSE IF First72(v) = h.key THEN "true"
    ELSE "false"

NullHash == [alg |-> "null"]

(***************************************************************************)
(* The store (TypeORM repository over the users table)                     *)
(***************************************************************************)
Ids == 1..Len(users)

\* a lookup that never finds a row
FindNothing(u) == {}

FindByUsername(u) == {i \in Ids : users[i].username = u}
FindById(id) == {i \in Ids : users[i].id = id}

\* an update without its where clause
UpdateEveryRow(id, h) == [i \in Ids |-> [users[i] EXCEPT !.refreshTokenHash = h]]
UpdateRefreshTokenHash(id, h) ==
    [i \in Ids |-> IF users[i].id = id THEN [users[i] EXCEPT !.refreshTokenHash = h]
                   ELSE users[i]]

(***************************************************************************)
(* Requests and responses                                                  *)
(***************************************************************************)
Idle == [pc |-> "idle"]
NoToken == [js |-> "none"]
NoResp == [op |-> "none"]

ErrorBody(msg) == [error |-> msg]

Summary(row) == [id |-> row.id, username |-> row.username, role |-> row.role]

\* the deployment as the repository ships it: src/product-service/src/index.js
\* mounts ./routes/products.js, the Lambda functions default their secret to ''
Routers == {"products.js", "part_000"}
LambdaSecrets == {"", ACCESS_TOKEN_SECRET}
Shipped == [router |-> "products.js", lambdaSecret |-> ""]

NoProducts == [rows |-> {}, made |-> 0]

JsNull == [js |-> "null"]
EmptyStorage == [accessToken |-> JsNull, refreshToken |-> JsNull, user |-> JsNull]
NoOrder == [pc |-> "idle"]
NoOrders == [rows |-> {}, made |-> 0, pending |-> NoOrder]
EmptyCart == <<>>
Calls == {"r1", "r2"}
NewCall ==
    [pc |-> "new", retry |-> FALSE, retryCount |-> 0, auth |-> JsNull, posted |-> JsNull,
     delay |-> 0, toast |-> "", got |-> <<>>, sends |-> 0, refreshes |-> 0,
     refreshGot |-> ""]

InitUserService ==
    /\ users = <<>>
    /\ now = 0
    /\ reqs = [s \in Slots |-> Idle]
    /\ resp = NoResp
    /\ issued = {}
    /\ spent = NoToken
    /\ loggedOut = {}

Init ==
    /\ InitUserService
    /\ env = Shipped
    /\ products = NoProducts
    /\ storage = EmptyStorage
    /\ calls = [r \in Calls |-> NewCall]
    /\ orders = NoOrders
    /\ cart = EmptyCart

\* a request is taken up only when no response is being written
Ready(s) == resp = NoResp /\ reqs[s].pc = "idle"

(***************************************************************************)
(* POST /register                                                          *)
(***************************************************************************)
\* the validation with && in place of ||
RegisterInvalidBoth(username, password) == username \in {Undefined, ""} /\ Falsy(password)

\* line 64: !username || !password
RegisterInvalid(username, password) == username \in {Undefined, ""} \/ Falsy(password)

\* the role taken as sent, the column default for an absent one
KeepRole(role) == IF role = Undefined THEN "user" ELSE role

\* line 71
NormalizeRole(role) == IF role = "admin" THEN "admin" ELSE "user"

\* User.js 42-46: the unique constraint of the username column, checked by
\* the database when a row is inserted
UniqueViolation(username) == \E i \in Ids : users[i].username = username

\* lines 63-68: validation and the lookup, up to the await of bcrypt.hash
Register(s, username, password, role) ==
    LET in == [username |-> username, password |-> password, role |-> role] IN
    /\ Ready(s)
    /\ IF RegisterInvalid(username, password)
       THEN /\ resp' = [op |-> "register", in |-> in, at |-> "validate", status |-> 400,
                        body |-> ErrorBody("username and password required")]
            /\ UNCHANGED reqs
       ELSE IF FindByUsername(username) # {}
       THEN /\ resp' = [op |-> "register", in |-> in, at |-> "lookup", status |-> 409,
                        body |-> ErrorBody("username taken")]
            /\ UNCHANGED reqs
       ELSE /\ reqs' = [reqs EXCEPT ![s] = [pc |-> "save", op |-> "register", in |-> in]]
            /\ UNCHANGED resp
    /\ UNCHANGED <<users, now, issued, spent, loggedOut>>
    /\ UNCHANGED outside

\* lines 70-78: hash, normalize, create and save; the unique constraint on
\* username (User.js 42-46) rejects the insert and the catch answers 500
RegisterSave(s) ==
    LET in == reqs[s].in
        row == [id |-> Len(users) + 1,
                username |-> in.username,
                passwordHash |-> BcryptHash(in.password),
                role |-> NormalizeRole(in.role),
                refreshTokenHash |-> NullHash]
    IN
    /\ resp = NoResp
    /\ reqs[s].pc = "save"
    /\ reqs' = [reqs EXCEPT ![s] = Idle]
    /\ IF UniqueViolation(in.username)
       THEN /\ resp' = [op |-> "register", in |-> in, at |-> "save", status |-> 500,
                        body |-> ErrorBody("duplicate key value violates unique constraint")]
            /\ UNCHANGED users
       ELSE /\ users' = Append(users, row)
            /\ resp' = [op |-> "register", in |-> in, at |-> "save", status |-> 201,
                        body |-> Summary(row)]
    /\ UNCHANGED <<now, issued, spent, loggedOut>>
    /\ UNCHANGED outside

(***************************************************************************)
(* POST /login                                                             *)
(***************************************************************************)
AccessClaims(user) == [sub |-> user.id, username |-> user.username, role |-> user.role]
RefreshClaims(user) == [sub |-> user.id, type |-> "refresh"]

\* a login that stores the hash of a new refresh token as soon as it has
\* found the row, before it compares the password
LoginWritesFirst(s, username, password) ==
    LET in == [username |-> username, password |-> password]
        found == FindByUsername(username)
        user == users[CHOOSE i \in found : TRUE]
        ok == BcryptCompare(password, user.passwordHash)
        early == JwtSign(RefreshClaims(user), REFRESH_TOKEN_SECRET, REFRESH_TOKEN_TTL)
    IN
    /\ Ready(s)
    /\ IF found = {}
       THEN /\ resp' = [op |-> "login", in |-> in, status |-> 401,
                        body |-> ErrorBody("invalid credentials")]
            /\ UNCHANGED <<reqs, users>>
       ELSE /\ users' = UpdateRefreshTokenHash(user.id, BcryptHash(early))
            /\ IF ok = "throw"
               THEN /\ resp' = [op |-> "login", in |-> in, status |-> 500,
                                body |-> ErrorBody("Illegal arguments")]
                    /\ UNCHANGED reqs
               ELSE IF ok = "false"
               THEN /\ resp' = [op |-> "login", in |-> in, status |-> 401,
                                body |-> ErrorBody("invalid credentials")]
                    /\ UNCHANGED reqs
               ELSE /\ reqs' = [reqs EXCEPT ![s] =
                                   [pc |-> "issue", op |-> "login", in |-> in,
                                    user |-> Summary(user)]]
                    /\ UNCHANGED resp
    /\ UNCHANGED <<now, issued, spent, loggedOut>>
    /\ UNCHANGED outside
\* lines 83-89: the lookup and bcrypt.compare; a rejected compare falls to
\* the catch of line 97
Login(s, username, password) ==
    LET in == [username |-> username, password |-> password]
        found == FindByUsername(username)
        user == users[CHOOSE i \in found : TRUE]
        ok == BcryptCompare(password, user.passwordHash)
    IN
    /\ Ready(s)
    /\ IF found = {}
       THEN /\ resp' = [op |-> "login", in |-> in, status |-> 401,
                        body |-> ErrorBody("invalid credentials")]
            /\ UNCHANGED reqs
       ELSE IF ok = "throw"
       THEN /\ resp' = [op |-> "login", in |-> in, status |-> 500,
                        body |-> ErrorBody("Illegal arguments")]
            /\ UNCHANGED reqs
       ELSE IF ok = "false"
       THEN /\ resp' = [op |-> "login", in |-> in, status |-> 401,
                        body |-> ErrorBody("invalid credentials")]
            /\ UNCHANGED reqs
       ELSE /\ reqs' = [reqs EXCEPT ![s] =
                           [pc |-> "issue", op |-> "login", in |-> in, user |-> Summary(user)]]
            /\ UNCHANGED resp
    /\ UNCHANGED <<users, now, issued, spent, loggedOut>>
    /\ UNCHANGED outside

\* lines 91-96: sign both tokens, store the hash of the refresh token, answer.
\* The await of bcrypt.hash between sign and update touches neither the
\* store nor the clock, and the hash does not depend on iat, so the three
\* are one step.
LoginIssue(s) ==
    LET user == reqs[s].user
        accessToken == JwtSign(AccessClaims(user), ACCESS_TOKEN_SECRET, ACCESS_TOKEN_TTL)
        refreshToken == JwtSign(RefreshClaims(user), REFRESH_TOKEN_SECRET, REFRESH_TOKEN_TTL)
    IN
    /\ resp = NoResp
    /\ reqs[s].pc = "issue"
    /\ reqs' = [reqs EXCEPT ![s] = Idle]
    /\ users' = UpdateRefreshTokenHash(user.id, BcryptHash(refreshToken))
    /\ resp' = [op |-> "login", in |-> reqs[s].in, status |-> 200,
                body |-> [accessToken |-> accessToken, refreshToken |-> refreshToken,
                          user |-> user]]
    /\ issued' = issued \cup {accessToken, refreshToken}
    /\ loggedOut' = loggedOut \ {user.id}
    /\ UNCHANGED <<now, spent>>
    /\ UNCHANGED outside

(***************************************************************************)
(* POST /refresh-token                                                     *)
(***************************************************************************)
SubOf(v) == IF IsJwt(v) THEN v.jwt.claims.sub ELSE 0

\* lines 131-148: every check of the presented token, on the row read at 144
RefreshVerdict(refreshToken) ==
    LET found == FindById(SubOf(refreshToken))
        user == users[CHOOSE i \in found : TRUE]
    IN
    IF Falsy(refreshToken) THEN "missing"
    ELSE IF JwtVerify(refreshToken, REFRESH_TOKEN_SECRET) = "throw" THEN "invalid"
    ELSE IF PayloadType(refreshToken) # "refresh" THEN "invalid"
    ELSE IF found = {} THEN "invalid"
    ELSE IF user.refreshTokenHash = NullHash THEN "invalid"
    ELSE IF BcryptCompare(refreshToken, user.refreshTokenHash) # "true" THEN "invalid"
    ELSE "match"

Refresh(s, refreshToken) ==
    \* stale, afterLogout and overtaken are history, not handler state: was the
    \* presented token the one last rotated away when the request arrived, was
    \* its subject logged out then, and was the token rotated away by another
    \* request while this one was being handled
    LET in == [refreshToken |-> refreshToken]
        verdict == RefreshVerdict(refreshToken)
        user == users[CHOOSE i \in FindById(SubOf(refreshToken)) : TRUE]
        stale == refreshToken = spent
        afterLogout == SubOf(refreshToken) \in loggedOut
    IN
    /\ Ready(s)
    /\ IF verdict = "missing"
       THEN /\ resp' = [op |-> "refresh", in |-> in, status |-> 400,
                        body |-> ErrorBody("refreshToken required"),
                        stale |-> stale, afterLogout |-> afterLogout, overtaken |-> FALSE]
            /\ UNCHANGED reqs
       ELSE IF verdict = "invalid"
       THEN /\ resp' = [op |-> "refresh", in |-> in, status |-> 401,
                        body |-> ErrorBody("invalid refresh token"),
                        stale |-> stale, afterLogout |-> afterLogout, overtaken |-> FALSE]
            /\ UNCHANGED reqs
       ELSE /\ reqs' = [reqs EXCEPT ![s] =
                           [pc |-> "rotate", op |-> "refresh", in |-> in,
                            user |-> Summary(user),
                            stale |-> stale, afterLogout |-> afterLogout]]
            /\ UNCHANGED resp
    /\ UNCHANGED <<users, now, issued, spent, loggedOut>>
    /\ UNCHANGED outside

\* lines 150-156: sign the new refresh token, store its hash, sign the access
\* token, answer
RefreshRotate(s) ==
    LET user == reqs[s].user
        presented == reqs[s].in.refreshToken
        newRefreshToken == JwtSign(RefreshClaims(user), REFRESH_TOKEN_SECRET, REFRESH_TOKEN_TTL)
        accessToken == JwtSign(AccessClaims(user), ACCESS_TOKEN_SECRET, ACCESS_TOKEN_TTL)
    IN
    /\ resp = NoResp
    /\ reqs[s].pc = "rotate"
    /\ reqs' = [reqs EXCEPT ![s] = Idle]
    /\ users' = UpdateRefreshTokenHash(user.id, BcryptHash(newRefreshToken))
    /\ resp' = [op |-> "refresh", in |-> reqs[s].in, status |-> 200,
                body |-> [accessToken |-> accessToken, refreshToken |-> newRefreshToken],
                stale |-> reqs[s].stale, afterLogout |-> reqs[s].afterLogout,
                overtaken |-> (~reqs[s].stale /\ presented = spent)]
    /\ issued' = issued \cup {accessToken, newRefreshToken}
    /\ spent' = IF newRefreshToken = presented THEN spent ELSE presented
    /\ UNCHANGED <<now, loggedOut>>
    /\ UNCHANGED outside

(***************************************************************************)
(* auth middleware and POST /logout                                        *)
(***************************************************************************)
\* const [, token] = h.split(' ')
SecondPart(h) == IF Len(h) >= 2 THEN h[2] ELSE JsUndefined

\* an auth that also asks the store whether the subject holds a session
AuthChecksSession(h) ==
    LET token == SecondPart(h)
        found == FindById(SubOf(token))
    IN
    IF Falsy(token) THEN "missing"
    ELSE IF JwtVerify(token, ACCESS_TOKEN_SECRET) = "throw" THEN "invalid"
    ELSE IF found = {} THEN "invalid"
    ELSE IF users[CHOOSE i \in found : TRUE].refreshTokenHash = NullHash THEN "invalid"
    ELSE "ok"
\* lines 103-113: "missing", "invalid" or "ok"
Auth(h) ==
    LET token == SecondPart(h) IN
    IF Falsy(token) THEN "missing"
    ELSE IF JwtVerify(token, ACCESS_TOKEN_SECRET) = "throw" THEN "invalid"
    ELSE "ok"

\* lines 163-171
Logout(s, h) ==
    LET in == [authorization |-> h]
        sub == SubOf(SecondPart(h))
    IN
    /\ Ready(s)
    /\ IF Auth(h) = "missing"
       THEN /\ resp' = [op |-> "logout", in |-> in, status |-> 401,
                        body |-> ErrorBody("missing token")]
            /\ UNCHANGED <<users, loggedOut>>
       ELSE IF Auth(h) = "invalid"
       THEN /\ resp' = [op |-> "logout", in |-> in, status |-> 401,
                        body |-> ErrorBody("invalid token")]
            /\ UNCHANGED <<users, loggedOut>>
       ELSE /\ users' = UpdateRefreshTokenHash(sub, NullHash)
            /\ resp' = [op |-> "logout", in |-> in, status |-> 200, body |-> [ok |-> TRUE]]
            /\ loggedOut' = loggedOut \cup {sub}
    /\ UNCHANGED <<now, reqs, issued, spent>>
    /\ UNCHANGED outside

(***************************************************************************)
(* GET /me                                                                 *)
(***************************************************************************)
\* select: ['id', 'username', 'role', 'createdAt'] keeps these columns of
\* the row; the timestamps of the table are not part of the model
WholeRow(row) == row

Profile(row) == [id |-> row.id, username |-> row.username, role |-> row.role]

\* lines 115-126, behind auth; the handler reads the store once and answers
\* with what it read
Me(s, h) ==
    LET in == [authorization |-> h]
        found == FindById(SubOf(SecondPart(h)))
    IN
    /\ Ready(s)
    /\ resp' = IF Auth(h) = "missing"
               THEN [op |-> "me", in |-> in, status |-> 401,
                     body |-> ErrorBody("missing token")]
               ELSE IF Auth(h) = "invalid"
               THEN [op |-> "me", in |-> in, status |-> 401,
                     body |-> ErrorBody("invalid token")]
               ELSE [op |-> "me", in |-> in, status |-> 200,
                     body |-> IF found = {} THEN JsNull
                              ELSE Profile(users[CHOOSE i \in found : TRUE])]
    /\ UNCHANGED <<users, now, reqs, issued, spent, loggedOut>>
    /\ UNCHANGED outside

\* The response composed by a handler step stays in resp until it has left
\* the server; nothing else runs in between, so resp shows every response
\* together with the state it was composed in.
Deliver ==
    /\ resp # NoResp
    /\ resp' = NoResp
    /\ UNCHANGED <<users, now, reqs, issued, spent, loggedOut>>
    /\ UNCHANGED outside

Tick ==
    /\ resp = NoResp
    /\ now < MaxTime
    /\ now' = now + 1
    /\ UNCHANGED <<users, reqs, resp, issued, spent, loggedOut>>
    /\ UNCHANGED outside

(***************************************************************************)
(* What clients send                                                       *)
(***************************************************************************)
UsernameInputs == Usernames \cup {Undefined, ""}
RegisterPasswords == {JsString(p) : p \in PasswordTexts} \cup {JsUndefined, JsString("")}
LoginPasswords == {JsString(p) : p \in PasswordTexts} \cup {JsUndefined}

\* a token signed by somebody who does not hold the service's secrets
Forged(id) ==
    [js |-> "string",
     jwt |-> [secret |-> "guess", claims |-> [sub |-> id, type |-> "refresh"],
              iat |-> now, exp |-> now + REFRESH_TOKEN_TTL]]

TokenInputs ==
    issued \cup {Forged(id) : id \in Ids} \cup {JsUndefined, JsString(""), JsNumber}

HeaderInputs ==
    {<<>>, <<JsString("Bearer")>>}
        \cup {<<JsString(scheme), t>> : scheme \in {"Bearer", "Basic"}, t \in issued}
        \cup {<<JsString("Bearer"), Forged(id)>> : id \in Ids}

(***************************************************************************)
(* Spec: the session life of one account (register, login, refresh,        *)
(* logout) under two connections and a running clock.  The second username *)
(* is never registered here; it is the unknown name of /login.             *)
(***************************************************************************)
Account == "alice"
AccountPassword == JsString("pw1")
AccountRoles == {Undefined, "admin"}

Next ==
    \/ Tick
    \/ Deliver
    \/ \E s \in Slots, r \in AccountRoles : Register(s, Account, AccountPassword, r)
    \/ \E s \in Slots : RegisterSave(s)
    \/ \E s \in Slots, u \in Usernames, p \in LoginPasswords : Login(s, u, p)
    \/ \E s \in Slots : LoginIssue(s)
    \/ \E s \in Slots, t \in TokenInputs : Refresh(s, t)
    \/ \E s \in Slots : RefreshRotate(s)
    \/ \E s \in Slots, h \in HeaderInputs : Logout(s, h)
    \/ \E s \in Slots, h \in HeaderInputs : Me(s, h)

Spec == Init /\ [][Next]_vars

(***************************************************************************)
(* SpecRegister: registration alone, with every kind of request body, two  *)
(* usernames and two connections.                                          *)
(***************************************************************************)
NextRegister ==
    \/ Deliver
    \/ \E s \in Slots, u \in UsernameInputs, p \in RegisterPasswords, r \in RoleInputs :
          Register(s, u, p, r)
    \/ \E s \in Slots : RegisterSave(s)

SpecRegister == Init /\ [][NextRegister]_vars
(***************************************************************************)
(* SpecTwoUsers: the session lives of two accounts on one connection, so    *)
(* that every request of one user is handled next to the row of another.   *)
(***************************************************************************)
NextTwoUsers ==
    \/ Tick
    \/ Deliver
    \/ \E u \in Usernames : Register("c1", u, AccountPassword, Undefined)
    \/ RegisterSave("c1")
    \/ \E u \in Usernames, p \in LoginPasswords : Login("c1", u, p)
    \/ LoginIssue("c1")
    \/ \E t \in TokenInputs : Refresh("c1", t)
    \/ RefreshRotate("c1")
    \/ \E h \in HeaderInputs : Logout("c1", h)
    \/ \E h \in HeaderInputs : Me("c1", h)

SpecTwoUsers == Init /\ [][NextTwoUsers]_vars
(***************************************************************************)
(* The product service.  The repository holds its router twice: the file   *)
(* src/product-service/src/routes/products.js, which index.js mounts, and  *)
(* src/unnamed/part_000, the same routes behind auth and requireAdmin.     *)
(* env.router says which of the two the running service has mounted.       *)
(* Requests to the product service are handled one at a time here.         *)
(***************************************************************************)
MaxProducts == 2

\* part_000 lines 7-18: the auth of the user service with the same secret
ProductAuth(h) ==
    LET token == SecondPart(h) IN
    IF Falsy(token) THEN "missing"
    ELSE IF JwtVerify(token, ACCESS_TOKEN_SECRET) = "throw" THEN "invalid"
    ELSE "ok"

\* req.user?.role of a verified token
RoleOf(token) ==
    IF "role" \in DOMAIN token.jwt.claims THEN token.jwt.claims.role ELSE Undefined

\* auth, requireAdmin of part_000 (lines 7-23) in front of POST, PUT and
\* DELETE; products.js has no middleware in front of them
AdminGate(h) ==
    IF env.router = "products.js" THEN [pass |-> TRUE]
    ELSE IF ProductAuth(h) = "missing"
    THEN [pass |-> FALSE, status |-> 401, body |-> ErrorBody("missing token")]
    ELSE IF ProductAuth(h) = "invalid"
    THEN [pass |-> FALSE, status |-> 401, body |-> ErrorBody("invalid token")]
    ELSE IF RoleOf(SecondPart(h)) # "admin"
    THEN [pass |-> FALSE, status |-> 403, body |-> ErrorBody("forbidden")]
    ELSE [pass |-> TRUE]

ProductIds == {row.id : row \in products.rows}
ProductById(id) == CHOOSE row \in products.rows : row.id = id

\* name, price and stock are NOT NULL columns
ProductInvalid(body) == \E f \in {"name", "price", "stock"} : f \notin DOMAIN body

\* productRepository.merge(product, req.body)
Merge(row, body) ==
    [f \in DOMAIN row |-> IF f \in DOMAIN body THEN body[f] ELSE row[f]]

ProductReady == resp = NoResp

\* POST /
ProductCreate(h, body) ==
    LET in == [authorization |-> h, body |-> body]
        gate == AdminGate(h)
        row == [id |-> products.made + 1, name |-> body.name, price |-> body.price,
                stock |-> body.stock]
    IN
    /\ ProductReady
    /\ products.made < MaxProducts
    /\ IF ~gate.pass
       THEN /\ resp' = [op |-> "product.create", in |-> in, status |-> gate.status,
                        body |-> gate.body]
            /\ UNCHANGED products
       ELSE IF ProductInvalid(body)
       THEN /\ resp' = [op |-> "product.create", in |-> in, status |-> 400,
                        body |-> ErrorBody("null value violates not-null constraint")]
            /\ UNCHANGED products
       ELSE /\ products' = [rows |-> products.rows \cup {row}, made |-> products.made + 1]
            /\ resp' = [op |-> "product.create", in |-> in, status |-> 201, body |-> row]
    /\ UNCHANGED <<users, now, reqs, issued, spent, loggedOut, env, orders, cart, storage, calls>>

\* GET /
ProductList ==
    /\ ProductReady
    /\ resp' = [op |-> "product.list", in |-> [authorization |-> <<>>], status |-> 200,
                body |-> [rows |-> products.rows]]
    /\ UNCHANGED <<users, now, reqs, issued, spent, loggedOut, env, orders, cart, products, storage, calls>>

\* GET /:id
ProductGet(id) ==
    /\ ProductReady
    /\ resp' = IF id \notin ProductIds
               THEN [op |-> "product.get", in |-> [authorization |-> <<>>, id |-> id],
                     status |-> 404, body |-> ErrorBody("not found")]
               ELSE [op |-> "product.get", in |-> [authorization |-> <<>>, id |-> id],
                     status |-> 200, body |-> ProductById(id)]
    /\ UNCHANGED <<users, now, reqs, issued, spent, loggedOut, env, orders, cart, products, storage, calls>>

\* PUT /:id
ProductUpdate(h, id, body) ==
    LET in == [authorization |-> h, id |-> id, body |-> body]
        gate == AdminGate(h)
    IN
    /\ ProductReady
    /\ IF ~gate.pass
       THEN /\ resp' = [op |-> "product.update", in |-> in, status |-> gate.status,
                        body |-> gate.body]
            /\ UNCHANGED products
       ELSE IF id \notin ProductIds
       THEN /\ resp' = [op |-> "product.update", in |-> in, status |-> 404,
                        body |-> ErrorBody("not found")]
            /\ UNCHANGED products
       ELSE /\ products' = [products EXCEPT !.rows =
                               (@ \ {ProductById(id)}) \cup {Merge(ProductById(id), body)}]
            /\ resp' = [op |-> "product.update", in |-> in, status |-> 200,
                        body |-> Merge(ProductById(id), body)]
    /\ UNCHANGED <<users, now, reqs, issued, spent, loggedOut, env, orders, cart, storage, calls>>

\* DELETE /:id
ProductDelete(h, id) ==
    LET in == [authorization |-> h, id |-> id]
        gate == AdminGate(h)
    IN
    /\ ProductReady
    /\ IF ~gate.pass
       THEN /\ resp' = [op |-> "product.delete", in |-> in, status |-> gate.status,
                        body |-> gate.body]
            /\ UNCHANGED products
       ELSE IF id \notin ProductIds
       THEN /\ resp' = [op |-> "product.delete", in |-> in, status |-> 404,
                        body |-> ErrorBody("not found")]
            /\ UNCHANGED products
       ELSE /\ products' = [products EXCEPT !.rows = @ \ {ProductById(id)}]
            /\ resp' = [op |-> "product.delete", in |-> in, status |-> 200,
                        body |-> [deleted |-> TRUE]]
    /\ UNCHANGED <<users, now, reqs, issued, spent, loggedOut, env, orders, cart, storage, calls>>

\* The access tokens the user service hands to an admin and to a plain user,
\* signed at any clock value up to now, and what an outsider can make up.
Principals ==
    {[id |-> 1, username |-> "alice", role |-> "admin"],
     [id |-> 2, username |-> "bob", role |-> "user"]}

SignedAt(claims, secret, ttl, iat) ==
    [js |-> "string",
     jwt |-> [secret |-> secret, claims |-> claims, iat |-> iat, exp |-> iat + ttl]]

AccessTokensSoFar ==
    {SignedAt(AccessClaims(p), ACCESS_TOKEN_SECRET, ACCESS_TOKEN_TTL, t) :
        p \in Principals, t \in 0..now}

RefreshTokensSoFar ==
    {SignedAt(RefreshClaims(p), REFRESH_TOKEN_SECRET, REFRESH_TOKEN_TTL, t) :
        p \in Principals, t \in 0..now}

ForgedAdminToken ==
    SignedAt([sub |-> 1, username |-> "alice", role |-> "admin"], "guess",
             ACCESS_TOKEN_TTL, now)

BearerInputs ==
    {<<>>, <<JsString("Bearer")>>}
        \cup {<<JsString("Bearer"), t>> :
                t \in AccessTokensSoFar \cup RefreshTokensSoFar \cup {ForgedAdminToken}}

ProductBodies == {[name |-> "pen", price |-> 1, stock |-> 5], [price |-> 1, stock |-> 5]}
ProductChanges == {[price |-> 2]}
ProductIdInputs == 1..MaxProducts

InitProducts ==
    /\ InitUserService
    /\ env \in {[router |-> r, lambdaSecret |-> ""] : r \in Routers}
    /\ products = NoProducts
    /\ storage = EmptyStorage
    /\ calls = [r \in Calls |-> NewCall]
    /\ orders = NoOrders
    /\ cart = EmptyCart

NextProducts ==
    \/ Tick
    \/ Deliver
    \/ \E h \in BearerInputs, b \in ProductBodies : ProductCreate(h, b)
    \/ ProductList
    \/ \E id \in ProductIdInputs : ProductGet(id)
    \/ \E h \in BearerInputs, id \in ProductIdInputs, b \in ProductChanges :
          ProductUpdate(h, id, b)
    \/ \E h \in BearerInputs, id \in ProductIdInputs : ProductDelete(h, id)

SpecProducts == InitProducts /\ [][NextProducts]_vars
(***************************************************************************)
(* The Lambda authorizer (src/unnamed/part_002, exports.authorize).  A     *)
(* header value is the sequence of its parts between single spaces, as for *)
(* auth above; the empty header is the empty sequence.  jwt.verify with    *)
(* the default secret '' throws for every token.                           *)
(***************************************************************************)
SchemeWords == {"Bearer", "bearer", "BEARER", "Basic"}

\* String.prototype.toLowerCase that leaves the text as it is
SameCase(w) == w

\* String.prototype.toLowerCase on the words above
ToLowerCase(w) ==
    IF w \in {JsString("Bearer"), JsString("bearer"), JsString("BEARER")}
    THEN JsString("bearer")
    ELSE IF w = JsString("Basic") THEN JsString("basic")
    ELSE w

\* event.headers?.authorization || event.headers?.Authorization || ''
AuthHeader(event) ==
    IF "authorization" \in DOMAIN event.headers /\ event.headers.authorization # <<>>
    THEN event.headers.authorization
    ELSE IF "Authorization" \in DOMAIN event.headers
    THEN event.headers.Authorization
    ELSE <<>>

\* authHeader.toLowerCase().startsWith('bearer ')
StartsWithBearer(h) == Len(h) >= 2 /\ ToLowerCase(h[1]) = JsString("bearer")

\* String.prototype.trim on the parts behind the scheme
RECURSIVE Trim(_)
Trim(parts) ==
    IF parts = <<>> THEN <<>>
    ELSE IF Head(parts) = JsString("") THEN Trim(Tail(parts))
    ELSE IF parts[Len(parts)] = JsString("") THEN Trim(SubSeq(parts, 1, Len(parts) - 1))
    ELSE parts

\* authHeader.slice(7).trim(): the one part that is left, the empty string,
\* or a text with spaces inside, which is no token
SliceToken(h) ==
    LET rest == Trim(Tail(h)) IN
    IF rest = <<>> THEN JsString("")
    ELSE IF Len(rest) = 1 THEN rest[1]
    ELSE JsString("text with spaces")

\* decoded.sub || decoded.id || '', decoded.username || '', decoded.role || 'user'
AuthorizerContext(claims) ==
    [sub |-> IF "sub" \in DOMAIN claims THEN claims.sub
             ELSE IF "id" \in DOMAIN claims THEN claims.id ELSE "",
     username |-> IF "username" \in DOMAIN claims THEN claims.username ELSE "",
     role |-> IF "role" \in DOMAIN claims THEN claims.role ELSE "user"]

\* lines 157-182
AuthorizeResult(event) ==
    LET authHeader == AuthHeader(event)
        token == SliceToken(authHeader)
    IN
    IF authHeader = <<>> \/ ~StartsWithBearer(authHeader)
    THEN [isAuthorized |-> FALSE,
          context |-> [reason |-> "missing_or_malformed_authorization_header"]]
    ELSE IF JwtVerify(token, env.lambdaSecret) = "throw"
    THEN [isAuthorized |-> FALSE, context |-> [reason |-> "invalid_token"]]
    ELSE [isAuthorized |-> TRUE, context |-> AuthorizerContext(token.jwt.claims)]

Authorize(event) ==
    /\ resp = NoResp
    /\ resp' = [op |-> "authorize", in |-> event, status |-> 200,
                body |-> AuthorizeResult(event)]
    /\ UNCHANGED <<users, now, reqs, issued, spent, loggedOut, env, orders, cart, products, storage, calls>>

AuthorizerHeaders ==
    {<<>>, <<JsString("Bearer")>>, <<JsString("Bearer"), JsString("")>>}
        \cup {<<JsString(w), t>> :
                w \in SchemeWords,
                t \in AccessTokensSoFar \cup RefreshTokensSoFar \cup {ForgedAdminToken}}
        \cup {<<JsString("Bearer"), JsString(""), t>> : t \in AccessTokensSoFar}
        \cup {<<JsString("Bearer"), t, JsString("x")>> : t \in AccessTokensSoFar}

AuthorizerEvents ==
    {[headers |-> <<>>]}
        \cup {[headers |-> [authorization |-> h]] : h \in AuthorizerHeaders}
        \cup {[headers |-> [Authorization |-> h]] : h \in AuthorizerHeaders}

InitAuthorizer ==
    /\ InitUserService
    /\ env \in {[router |-> "products.js", lambdaSecret |-> k] : k \in LambdaSecrets}
    /\ products = NoProducts
    /\ storage = EmptyStorage
    /\ calls = [r \in Calls |-> NewCall]
    /\ orders = NoOrders
    /\ cart = EmptyCart

NextAuthorizer ==
    \/ Tick
    \/ Deliver
    \/ \E event \in AuthorizerEvents : Authorize(event)

SpecAuthorizer == InitAuthorizer /\ [][NextAuthorizer]_vars
(***************************************************************************)
(* The frontend's api instance (src/frontend/src/services/api.ts).  A call *)
(* is one request made through the instance: its config carries _retry and *)
(* _retryCount from one send to the next.  The server is not part of this  *)
(* model: what it answers to a send and to the refresh call is an input.   *)
(* The interceptor runs without interruption between its awaits (the       *)
(* refresh call, the backoff timer).  got, sends, refreshes and refreshGot *)
(* are history.                                                            *)
(***************************************************************************)
Token(kind, tag) == [js |-> "string", kind |-> kind, tag |-> tag]

LoggedInStorage ==
    [accessToken |-> Token("access", "login"), refreshToken |-> Token("refresh", "login"),
     user |-> JsString("alice")]

\* lines 19-22, with the two strings of a 200 of /refresh-token
SetTokens(accessToken, refreshToken) ==
    [storage EXCEPT !.accessToken = accessToken, !.refreshToken = refreshToken]

\* lines 23-27
ClearTokens == [accessToken |-> JsNull, refreshToken |-> JsNull, user |-> JsNull]

\* lines 30-37: the request interceptor sets the header from the stored
\* access token and leaves the config's header alone when there is none
Attach(auth) == IF storage.accessToken # JsNull THEN storage.accessToken ELSE auth

Answers == {"200", "401", "500", "network"}
RefreshAnswers == {"200", "401", "network"}

\* api.get / api.post: the first send of a request
ClientSend(r) ==
    /\ calls[r].pc = "new"
    /\ calls' = [calls EXCEPT ![r] =
                    [@ EXCEPT !.pc = "sent", !.auth = Attach(@), !.sends = 1]]
    /\ UNCHANGED <<users, now, reqs, resp, issued, spent, loggedOut, env, orders, cart, products, storage>>

\* lines 44-86: the answer to a send arrives; the response interceptor runs
\* up to its first await or to its end
ClientAnswer(r, answer) ==
    LET c == [calls[r] EXCEPT !.got = Append(@, answer)] IN
    /\ calls[r].pc = "sent"
    /\ IF answer = "200"
       THEN /\ calls' = [calls EXCEPT ![r] = [c EXCEPT !.pc = "resolved"]]
            /\ UNCHANGED storage
       ELSE IF answer = "401" /\ ~c.retry
       THEN IF storage.refreshToken = JsNull
            THEN /\ storage' = ClearTokens
                 /\ calls' = [calls EXCEPT ![r] =
                                 [c EXCEPT !.retry = TRUE, !.pc = "rejected",
                                           !.toast = "Session expired. Please login again."]]
            ELSE /\ calls' = [calls EXCEPT ![r] =
                                 [c EXCEPT !.retry = TRUE, !.pc = "refreshing",
                                           !.posted = storage.refreshToken,
                                           !.refreshes = @ + 1]]
                 /\ UNCHANGED storage
       ELSE IF answer = "network" /\ ~c.retry
       THEN /\ calls' = [calls EXCEPT ![r] =
                            IF c.retryCount + 1 <= 3
                            THEN [c EXCEPT !.retry = TRUE, !.retryCount = @ + 1,
                                           !.pc = "backoff", !.delay = 2 ^ (c.retryCount + 1) * 1000]
                            ELSE [c EXCEPT !.retry = TRUE, !.retryCount = @ + 1,
                                           !.pc = "rejected", !.toast = "error"]]
            /\ UNCHANGED storage
       ELSE /\ calls' = [calls EXCEPT ![r] = [c EXCEPT !.pc = "rejected", !.toast = "error"]]
            /\ UNCHANGED storage
    /\ UNCHANGED <<users, now, reqs, resp, issued, spent, loggedOut, env, orders, cart, products>>

\* lines 57-66: the answer to axios.post(.../api/users/refresh-token); the
\* re-send of line 60 is not awaited, so its failure does not reach the catch
AfterRefresh(r, answer, accessToken, refreshToken) ==
    LET c == [calls[r] EXCEPT !.refreshGot = answer] IN
    IF answer = "200"
    THEN /\ storage' = SetTokens(accessToken, refreshToken)
         /\ calls' = [calls EXCEPT ![r] =
                         [c EXCEPT !.pc = "sent", !.auth = accessToken, !.sends = @ + 1]]
    ELSE /\ storage' = ClearTokens
         /\ calls' = [calls EXCEPT ![r] =
                         [c EXCEPT !.pc = "rejected",
                                   !.toast = "Session expired. Please login again."]]

ClientRefreshAnswer(r, answer) ==
    /\ calls[r].pc = "refreshing"
    /\ AfterRefresh(r, answer, Token("access", r), Token("refresh", r))
    /\ UNCHANGED <<users, now, reqs, resp, issued, spent, loggedOut, env, orders, cart, products>>

\* lines 76-77: the backoff timer fires and the request is sent again
ClientBackoffEnd(r) ==
    /\ calls[r].pc = "backoff"
    /\ calls' = [calls EXCEPT ![r] =
                    [@ EXCEPT !.pc = "sent", !.auth = Attach(@), !.sends = @ + 1]]
    /\ UNCHANGED <<users, now, reqs, resp, issued, spent, loggedOut, env, orders, cart, products, storage>>

InitClient ==
    /\ InitUserService
    /\ env = Shipped
    /\ products = NoProducts
    /\ storage \in {EmptyStorage, LoggedInStorage}
    /\ calls = [r \in Calls |-> NewCall]
    /\ orders = NoOrders
    /\ cart = EmptyCart

NextClient ==
    \/ \E r \in Calls : ClientSend(r)
    \/ \E r \in Calls, a \in Answers : ClientAnswer(r, a)
    \/ \E r \in Calls, a \in RefreshAnswers : ClientRefreshAnswer(r, a)
    \/ \E r \in Calls : ClientBackoffEnd(r)

SpecClient == InitClient /\ [][NextClient]_vars
(***************************************************************************)
(* The frontend against the user service: the login thunk of                *)
(* src/frontend/src/store/slices/authSlice.ts puts the tokens of a 200 of   *)
(* /login into localStorage, and the refresh of api.ts lines 52-67 is        *)
(* answered by the /refresh-token handler itself.  The resource server that  *)
(* answers the original request stays abstract (200 or 401).  Two calls that *)
(* post the same token may take each other's answer: the answers to one      *)
(* token in one store state are the same up to the token's iat, so this is a *)
(* relabelling of the two calls.                                             *)
(***************************************************************************)
SlotOf(r) == IF r = "r1" THEN "c1" ELSE "c2"

SessionAnswers == {"200", "401"}

\* authSlice.ts lines 29-31, on the 200 of apiService.login
ClientLoginStored ==
    /\ resp # NoResp
    /\ resp.op = "login"
    /\ resp.status = 200
    /\ storage' = [accessToken |-> resp.body.accessToken,
                   refreshToken |-> resp.body.refreshToken,
                   user |-> JsString(resp.body.user.username)]
    /\ resp' = NoResp
    /\ UNCHANGED <<users, now, reqs, issued, spent, loggedOut, env, orders, cart, products, calls>>

\* every other answer of register and login leaves localStorage alone
ClientOtherAnswer ==
    /\ resp # NoResp
    /\ resp.op \in {"register", "login"}
    /\ ~(resp.op = "login" /\ resp.status = 200)
    /\ Deliver

\* api.ts line 56: the POST of the token read at line 54
ClientRefreshPost(r) ==
    /\ calls[r].pc = "refreshing"
    /\ Refresh(SlotOf(r), calls[r].posted)

\* api.ts lines 57-66 on the answer of the handler: a 200 carries the new pair
ClientRefreshDelivered(r) ==
    /\ calls[r].pc = "refreshing"
    /\ resp # NoResp
    /\ resp.op = "refresh"
    /\ resp.in.refreshToken = calls[r].posted
    /\ reqs[SlotOf(r)].pc = "idle"
    /\ IF resp.status = 200
       THEN AfterRefresh(r, "200", resp.body.accessToken, resp.body.refreshToken)
       ELSE AfterRefresh(r, "401", JsNull, JsNull)
    /\ resp' = NoResp
    /\ UNCHANGED <<users, now, reqs, issued, spent, loggedOut, env, orders, cart, products>>

InitSession ==
    /\ InitUserService
    /\ env = Shipped
    /\ products = NoProducts
    /\ storage = EmptyStorage
    /\ calls = [r \in Calls |-> NewCall]
    /\ orders = NoOrders
    /\ cart = EmptyCart

NextSession ==
    \/ Tick
    \/ \E role \in AccountRoles : Register("c1", Account, AccountPassword, role)
    \/ RegisterSave("c1")
    \/ Login("c1", Account, AccountPassword)
    \/ LoginIssue("c1")
    \/ ClientLoginStored
    \/ ClientOtherAnswer
    \/ \E r \in Calls : ClientSend(r)
    \/ \E r \in Calls, a \in SessionAnswers : ClientAnswer(r, a)
    \/ \E r \in Calls : ClientRefreshPost(r)
    \/ \E s \in Slots : RefreshRotate(s)
    \/ \E r \in Calls : ClientRefreshDelivered(r)

SpecSession == InitSession /\ [][NextSession]_vars

(***************************************************************************)
(* The order service (src/unnamed/part_005 lines 190-300).  POST / awaits   *)
(* one GET of the product service per item, so the products table may       *)
(* change between two lookups of one order.  One POST is handled at a time:  *)
(* two POSTs share nothing but the table they insert into.                   *)
(***************************************************************************)
MaxOrders == 2

\* lines 245-255
OrderAuth(h) ==
    LET token == SecondPart(h) IN
    IF Falsy(token) THEN "missing"
    ELSE IF JwtVerify(token, ACCESS_TOKEN_SECRET) = "throw" THEN "invalid"
    ELSE "ok"

Array(elems) == [js |-> "array", elems |-> elems]

\* line 260: !Array.isArray(items) || items.length === 0
ItemsInvalid(items) == items.js # "array" \/ Len(items.elems) = 0

\* an owner taken from the request body when it names one
OwnerFromBody(h, body) ==
    IF "userId" \in DOMAIN body THEN body.userId ELSE SecondPart(h).jwt.claims.sub

\* line 277: userId: req.user.sub
OrderOwner(h, body) == SecondPart(h).jwt.claims.sub

\* line 274
RECURSIVE Total(_)
Total(priced) ==
    IF priced = <<>> THEN 0
    ELSE priced[1].qty * priced[1].priceAtPurchase + Total(Tail(priced))

\* lines 257-263: auth and the check of items
OrderPost(h, body) ==
    LET in == [authorization |-> h, body |-> body]
        items == IF "items" \in DOMAIN body THEN body.items ELSE JsUndefined
    IN
    /\ resp = NoResp
    /\ orders.pending = NoOrder
    /\ orders.made < MaxOrders
    /\ IF OrderAuth(h) = "missing"
       THEN /\ resp' = [op |-> "order.create", in |-> in, status |-> 401,
                        body |-> ErrorBody("missing token")]
            /\ UNCHANGED orders
       ELSE IF OrderAuth(h) = "invalid"
       THEN /\ resp' = [op |-> "order.create", in |-> in, status |-> 401,
                        body |-> ErrorBody("invalid token")]
            /\ UNCHANGED orders
       ELSE IF ItemsInvalid(items)
       THEN /\ resp' = [op |-> "order.create", in |-> in, status |-> 400,
                        body |-> ErrorBody("items array required")]
            /\ UNCHANGED orders
       ELSE /\ orders' = [orders EXCEPT !.pending =
                             [pc |-> "pricing", in |-> in, owner |-> OrderOwner(h, body),
                              items |-> items.elems, priced |-> <<>>]]
            /\ UNCHANGED resp
    /\ UNCHANGED <<users, now, reqs, issued, spent, loggedOut, env, products, storage,
                   calls, cart>>

\* lines 265-272 and 282: one turn of the loop, GET /:id of the product
\* service (products.js lines 33-43) and the catch of its 404
OrderPrice ==
    LET p == orders.pending
        it == p.items[Len(p.priced) + 1]
    IN
    /\ resp = NoResp
    /\ p.pc = "pricing"
    /\ Len(p.priced) < Len(p.items)
    /\ IF it.productId \notin ProductIds
       THEN /\ resp' = [op |-> "order.create", in |-> p.in, status |-> 400,
                        body |-> ErrorBody("invalid product id")]
            /\ orders' = [orders EXCEPT !.pending = NoOrder]
       ELSE /\ orders' = [orders EXCEPT !.pending.priced =
                             Append(@, [productId |-> it.productId, qty |-> it.qty,
                                        priceAtPurchase |-> ProductById(it.productId).price])]
            /\ UNCHANGED resp
    /\ UNCHANGED <<users, now, reqs, issued, spent, loggedOut, env, products, storage,
                   calls, cart>>

\* lines 274-281: total, create, save, 201
OrderSave ==
    LET p == orders.pending
        row == [id |-> orders.made + 1, userId |-> p.owner, items |-> p.priced,
                total |-> Total(p.priced)]
    IN
    /\ resp = NoResp
    /\ p.pc = "pricing"
    /\ Len(p.priced) = Len(p.items)
    /\ orders' = [rows |-> orders.rows \cup {row}, made |-> orders.made + 1,
                  pending |-> NoOrder]
    /\ resp' = [op |-> "order.create", in |-> p.in, status |-> 201, body |-> row]
    /\ UNCHANGED <<users, now, reqs, issued, spent, loggedOut, env, products, storage,
                   calls, cart>>

\* lines 287-298: GET /
OrderList(h) ==
    LET in == [authorization |-> h] IN
    /\ resp = NoResp
    /\ resp' = IF OrderAuth(h) = "missing"
               THEN [op |-> "order.list", in |-> in, status |-> 401,
                     body |-> ErrorBody("missing token")]
               ELSE IF OrderAuth(h) = "invalid"
               THEN [op |-> "order.list", in |-> in, status |-> 401,
                     body |-> ErrorBody("invalid token")]
               ELSE [op |-> "order.list", in |-> in, status |-> 200,
                     body |-> {row \in orders.rows :
                                  row.userId = SecondPart(h).jwt.claims.sub}]
    /\ UNCHANGED <<users, now, reqs, issued, spent, loggedOut, env, products, storage,
                   calls, orders, cart>>

ItemInputs ==
    {JsUndefined, JsString("pen"), Array(<<>>),
     Array(<<[productId |-> 1, qty |-> 1]>>),
     Array(<<[productId |-> 1, qty |-> 2], [productId |-> 2, qty |-> 1]>>)}

\* a body may carry a userId of its own
OrderBodies ==
    {[items |-> i] : i \in ItemInputs}
        \cup {[items |-> i, userId |-> u] : i \in ItemInputs, u \in {1, 2}}

CatalogueBodies == {[name |-> "pen", price |-> 1, stock |-> 5]}

InitOrders ==
    /\ InitUserService
    /\ env = Shipped
    /\ products = NoProducts
    /\ storage = EmptyStorage
    /\ calls = [r \in Calls |-> NewCall]
    /\ orders = NoOrders
    /\ cart = EmptyCart

NextOrders ==
    \/ Tick
    \/ Deliver
    \/ \E b \in CatalogueBodies : ProductCreate(<<>>, b)
    \/ \E id \in ProductIdInputs : ProductDelete(<<>>, id)
    \/ \E h \in BearerInputs, b \in OrderBodies : OrderPost(h, b)
    \/ OrderPrice
    \/ OrderSave
    \/ \E h \in BearerInputs : OrderList(h)

SpecOrders == InitOrders /\ [][NextOrders]_vars

(***************************************************************************)
(* The Lambda gateway (src/aws-api-gateway/src/handler.js lines 24-129,     *)
(* the same text as src/unnamed/part_002 lines 34-139).  A path is the       *)
(* sequence of its pieces, <<"/api/users", "/login">> for /api/users/login,  *)
(* so that startsWith and replace are computed on it.  The upstream          *)
(* service is its outcome for axios: a status, no response, or a failure     *)
(* before any request left.                                                  *)
(***************************************************************************)
Prefixes == <<"/api/users", "/api/products", "/api/orders">>

\* lines 4-6
ServiceUrl(prefix) ==
    IF prefix = "/api/users" THEN "USERS_URL"
    ELSE IF prefix = "/api/products" THEN "PRODUCTS_URL"
    ELSE "ORDERS_URL"

\* String.prototype.startsWith: the prefixes are whole pieces of a path
StartsWith(path, prefix) == Len(path) >= 1 /\ path[1] = prefix

\* String.prototype.replace with a string pattern: the first occurrence only
RECURSIVE ReplaceFirst(_, _)
ReplaceFirst(path, piece) ==
    IF path = <<>> THEN <<>>
    ELSE IF path[1] = piece THEN Tail(path)
    ELSE <<path[1]>> \o ReplaceFirst(Tail(path), piece)

\* a dispatch that forwards the path as it came
TargetKeepsPath(path) ==
    IF \E k \in 1..Len(Prefixes) : StartsWith(path, Prefixes[k])
    THEN LET k == CHOOSE k \in 1..Len(Prefixes) : StartsWith(path, Prefixes[k])
         IN [found |-> TRUE, url |-> ServiceUrl(Prefixes[k]), path |-> path]
    ELSE [found |-> FALSE]

\* lines 24-33
GetTargetService(path) ==
    IF StartsWith(path, "/api/users")
    THEN [found |-> TRUE, url |-> "USERS_URL", path |-> ReplaceFirst(path, "/api/users")]
    ELSE IF StartsWith(path, "/api/products")
    THEN [found |-> TRUE, url |-> "PRODUCTS_URL",
          path |-> ReplaceFirst(path, "/api/products")]
    ELSE IF StartsWith(path, "/api/orders")
    THEN [found |-> TRUE, url |-> "ORDERS_URL", path |-> ReplaceFirst(path, "/api/orders")]
    ELSE [found |-> FALSE]

\* String.prototype.toLowerCase on the method
MethodLower(m) ==
    IF m = "GET" THEN "get" ELSE IF m = "POST" THEN "post"
    ELSE IF m = "PUT" THEN "put" ELSE IF m = "DELETE" THEN "delete"
    ELSE IF m = "OPTIONS" THEN "options" ELSE m

\* lines 63-93: the request configuration handed to axios
RequestConfig(event, target) ==
    [method |-> MethodLower(event.httpMethod),
     url |-> target.url, path |-> target.path,
     authorization |-> IF event.headers.Authorization # "" THEN event.headers.Authorization
                       ELSE Undefined,
     params |-> event.queryStringParameters,
     data |-> IF event.body # "" /\ event.httpMethod \in {"POST", "PUT", "PATCH"}
              THEN event.body ELSE Undefined]

\* lines 36-129: the response and the axios calls made on the way
GatewayResult(event, outcome) ==
    LET target == GetTargetService(event.path) IN
    IF event.httpMethod = "OPTIONS" THEN [statusCode |-> 200, upstream |-> <<>>]
    ELSE IF event.path = <<"/health">> \/ event.path = <<"/">>
    THEN [statusCode |-> 200, upstream |-> <<>>]
    ELSE IF ~target.found THEN [statusCode |-> 404, upstream |-> <<>>]
    ELSE [statusCode |-> IF outcome.kind = "status" THEN outcome.status
                         ELSE IF outcome.kind = "silent" THEN 502
                         ELSE 500,
          upstream |-> <<RequestConfig(event, target)>>]

Gateway(event, outcome) ==
    LET r == GatewayResult(event, outcome) IN
    /\ resp = NoResp
    /\ resp' = [op |-> "gateway", in |-> event, outcome |-> outcome,
                status |-> r.statusCode, upstream |-> r.upstream]
    /\ UNCHANGED <<users, now, reqs, issued, spent, loggedOut>>
    /\ UNCHANGED outside

Methods == {"GET", "POST", "DELETE", "OPTIONS"}

PathInputs ==
    {<<"/">>, <<"/health">>, <<"/health", "/1">>, <<"/api">>, <<"/x", "/api/users">>,
     <<"/api/users">>, <<"/api/users", "/login">>, <<"/api/users", "/api/users">>,
     <<"/api/products">>, <<"/api/products", "/1">>, <<"/api/orders">>}

GatewayEvents ==
    [httpMethod : Methods, path : PathInputs, headers : [Authorization : {"", "Bearer t"}],
     body : {"", "{}"}, queryStringParameters : {Undefined}]

\* axios resolves on a 2xx status and rejects with error.response on any
\* other; error.request alone is a request that got no response
Outcomes ==
    {[kind |-> "status", status |-> s] : s \in {200, 201, 401, 404, 500}}
        \cup {[kind |-> "silent"], [kind |-> "failure"]}

InitGateway ==
    /\ InitUserService
    /\ env = Shipped
    /\ products = NoProducts
    /\ storage = EmptyStorage
    /\ calls = [r \in Calls |-> NewCall]
    /\ orders = NoOrders
    /\ cart = EmptyCart

NextGateway ==
    \/ \E e \in GatewayEvents, o \in Outcomes : Gateway(e, o)
    \/ Deliver

SpecGateway == InitGateway /\ [][NextGateway]_vars

(***************************************************************************)
(* The cart of the frontend's order slice (src/unnamed/part_008 lines       *)
(* 59-117).  An entry is the payload of addToCart; name and price take no    *)
(* part in any reducer and are left out.  addToCart is dispatched by         *)
(* ProductCard.tsx (lines 18-33, qty 1) and ProductDetails.tsx (lines 34-56, *)
(* 1 <= qty <= stock) with the stock the product service last reported, and  *)
(* an admin's PUT /:id changes that stock between two dispatches.            *)
(***************************************************************************)
MaxStock == 2

CartIndex(productId) == {k \in 1..Len(cart) : cart[k].productId = productId}

\* Array.prototype.find: the first entry of the product
CartFind(productId) == CHOOSE k \in CartIndex(productId) : \A j \in CartIndex(productId) : k <= j

\* Array.prototype.filter(item => item.productId !== productId)
RECURSIVE CartWithout(_, _)
CartWithout(items, productId) ==
    IF items = <<>> THEN <<>>
    ELSE IF items[1].productId = productId THEN CartWithout(Tail(items), productId)
    ELSE <<items[1]>> \o CartWithout(Tail(items), productId)

\* lines 60-71
AddToCart(payload) ==
    /\ cart' = IF CartIndex(payload.productId) # {}
               THEN LET k == CartFind(payload.productId) IN
                    IF cart[k].qty + payload.qty <= payload.stock
                    THEN [cart EXCEPT ![k].qty = @ + payload.qty]
                    ELSE cart
               ELSE Append(cart, payload)
    /\ UNCHANGED <<users, now, reqs, resp, issued, spent, loggedOut, env, products, storage,
                   calls, orders>>

\* lines 72-74
RemoveFromCart(productId) ==
    /\ cart' = CartWithout(cart, productId)
    /\ UNCHANGED <<users, now, reqs, resp, issued, spent, loggedOut, env, products, storage,
                   calls, orders>>

\* lines 75-86
UpdateCartItemQuantity(productId, qty) ==
    /\ cart' = IF CartIndex(productId) = {} THEN cart
               ELSE LET k == CartFind(productId) IN
                    IF qty <= 0 THEN CartWithout(cart, productId)
                    ELSE IF qty <= cart[k].stock THEN [cart EXCEPT ![k].qty = qty]
                    ELSE cart
    /\ UNCHANGED <<users, now, reqs, resp, issued, spent, loggedOut, env, products, storage,
                   calls, orders>>

\* lines 87-89
ClearCart ==
    /\ cart' = <<>>
    /\ UNCHANGED <<users, now, reqs, resp, issued, spent, loggedOut, env, products, storage,
                   calls, orders>>

\* lines 113-117: state.orders of the slice takes no part in the cart
CreateOrderFulfilled ==
    /\ cart' = <<>>
    /\ UNCHANGED <<users, now, reqs, resp, issued, spent, loggedOut, env, products, storage,
                   calls, orders>>

\* the payloads of handleAddToCart for the products on display
CartPayloads ==
    {[productId |-> row.id, qty |-> q, stock |-> row.stock] :
        row \in {p \in products.rows : p.stock > 0}, q \in 1..MaxStock}
        \cap {p \in [productId : ProductIdInputs, qty : 1..MaxStock, stock : 1..MaxStock] :
                 p.qty <= p.stock}

QtyInputs == 0..(MaxStock + 1)

StockBodies == {[name |-> "pen", price |-> 1, stock |-> s] : s \in 1..MaxStock}
StockChanges == {[stock |-> s] : s \in 1..MaxStock}

InitCart ==
    /\ InitUserService
    /\ env = Shipped
    /\ products = NoProducts
    /\ storage = EmptyStorage
    /\ calls = [r \in Calls |-> NewCall]
    /\ orders = NoOrders
    /\ cart = EmptyCart

NextCart ==
    \/ Deliver
    \/ \E b \in StockBodies : ProductCreate(<<>>, b)
    \/ \E id \in ProductIdInputs, b \in StockChanges : ProductUpdate(<<>>, id, b)
    \/ \E p \in CartPayloads : AddToCart(p)
    \/ \E id \in ProductIdInputs : RemoveFromCart(id)
    \/ \E id \in ProductIdInputs, q \in QtyInputs : UpdateCartItemQuantity(id, q)
    \/ ClearCart
    \/ CreateOrderFulfilled

SpecCart == InitCart /\ [][NextCart]_vars

(***************************************************************************)
(* Properties                                                              *)
(***************************************************************************)
Stored(id) == users[CHOOSE i \in 1..Len(users) : users[i].id = id].refreshTokenHash

IssuedRefreshTokens(id) ==
    {t \in issued : t.jwt.secret = REFRESH_TOKEN_SECRET /\ t.jwt.claims.sub = id}

\* C1: rotation - once /refresh-token has succeeded with a refresh token, a
\* later /refresh-token presenting that same token is answered 401.
C1_RotatedTokenRejected ==
    (resp.op = "refresh" /\ resp.stale) => resp.status = 401

\* C2: of two /refresh-token requests presenting the same token and handled
\* concurrently, at most one is answered 200: a request whose token was
\* rotated away by another request while it was in flight is answered 401.
C2_OneConcurrentRefreshWins ==
    (resp.op = "refresh" /\ resp.overtaken) => resp.status = 401

\* C3: single active session - for every user, at most one of the refresh
\* tokens ever issued for that user would be accepted by /refresh-token.
C3_SingleActiveSession ==
    \A id \in 1..Len(users) :
        Cardinality({t \in IssuedRefreshTokens(id) : RefreshVerdict(t) = "match"}) <= 1

\* C4: logout revokes - a /logout with a valid access token answers 200 and
\* leaves the subject's refreshTokenHash null, and a /refresh-token for a
\* user who is logged out (no login since the logout) is answered 401.
C4_LogoutRevokes ==
    /\ (resp.op = "logout" /\ Auth(resp.in.authorization) = "ok") =>
           /\ resp.status = 200
           /\ resp.body = [ok |-> TRUE]
           /\ Stored(SubOf(SecondPart(resp.in.authorization))) = NullHash
    /\ (resp.op = "refresh" /\ resp.afterLogout) => resp.status = 401
\* the conditions of lines 136-148 on the presented token, in the state at hand
RefreshAcceptable(t) ==
    /\ IsJwt(t)
    /\ t.jwt.secret = REFRESH_TOKEN_SECRET
    /\ now < t.jwt.exp
    /\ "type" \in DOMAIN t.jwt.claims
    /\ t.jwt.claims.type = "refresh"
    /\ \E i \in 1..Len(users) :
          /\ users[i].id = t.jwt.claims.sub
          /\ users[i].refreshTokenHash # NullHash
          /\ BcryptCompare(t, users[i].refreshTokenHash) = "true"

\* C5: /refresh-token answers 200 only for a request whose token, when the
\* handler checked it, was signed with the refresh secret, unexpired, of type
\* refresh, of an existing user with a stored hash, and matched that hash; a
\* missing (absent or empty) refreshToken is answered 400 and every other
\* failing request 401.
C5_RefreshGate ==
    [][/\ \A s \in Slots :
              (reqs[s].pc = "idle" /\ reqs'[s].pc = "rotate") =>
                  RefreshAcceptable(reqs'[s].in.refreshToken)
       /\ (resp = NoResp /\ resp'.op = "refresh") =>
              /\ resp'.status \in {200, 400, 401}
              /\ resp'.status = 200 =>
                     \E s \in Slots : /\ reqs[s].pc = "rotate"
                                      /\ reqs[s].in = resp'.in
                                      /\ reqs'[s].pc = "idle"
              /\ resp'.status = 400 <=> Falsy(resp'.in.refreshToken)
              /\ reqs' = reqs => ~RefreshAcceptable(resp'.in.refreshToken)
      ]_vars

\* C5 witness: an expired refresh token whose hash is the stored one is
\* answered 401.
C5_ExpiredStoredTokenRejected ==
    /\ resp.op = "refresh"
    /\ resp.status = 401
    /\ IsJwt(resp.in.refreshToken)
    /\ resp.in.refreshToken.jwt.secret = REFRESH_TOKEN_SECRET
    /\ now >= resp.in.refreshToken.jwt.exp
    /\ Stored(SubOf(resp.in.refreshToken)) = BcryptHash(resp.in.refreshToken)

\* C6: login indistinguishability - /login for a registered username with a
\* password that is not the account's (a wrong, missing or non-string one) is
\* answered exactly as /login for an unknown username: 401 "invalid
\* credentials".
C6_LoginIndistinguishable ==
    (/\ resp.op = "login"
     /\ \E i \in 1..Len(users) : users[i].username = resp.in.username
     /\ resp.in.password # AccountPassword) =>
        /\ resp.status = 401
        /\ resp.body = ErrorBody("invalid credentials")
Taken(username) == \E i \in 1..Len(users) : users[i].username = username

\* C7 as stated: every /register whose username already exists in the store
\* is answered 409 and leaves the store unchanged.
C7_DuplicateAlways409 ==
    [][/\ \A s \in Slots :
              (reqs[s].pc = "idle" /\ reqs'[s].pc = "save") =>
                  ~Taken(reqs'[s].in.username)
       /\ (resp = NoResp /\ resp'.op = "register" /\ resp'.at # "save"
               /\ Taken(resp'.in.username)) =>
              (resp'.status = 409 /\ users' = users)
      ]_vars

\* C7 amended: a /register that carries a password and whose username already
\* exists in the store is answered 409 and leaves the store unchanged; without
\* a password it is answered 400, the store unchanged as well.
C7_DuplicateRegister ==
    [][/\ \A s \in Slots :
              (reqs[s].pc = "idle" /\ reqs'[s].pc = "save") =>
                  ~Taken(reqs'[s].in.username)
       /\ (resp = NoResp /\ resp'.op = "register" /\ resp'.at # "save"
               /\ Taken(resp'.in.username)) =>
              /\ users' = users
              /\ resp'.status = IF Falsy(resp'.in.password) THEN 400 ELSE 409
      ]_vars

\* C7 witness: a duplicate registration has been answered 409.
C7_DuplicateAnswered ==
    /\ resp.op = "register"
    /\ resp.status = 409
    /\ Taken(resp.in.username)

\* C8: no two stored users share a username, and a registration that loses
\* to another one of the same username is answered 409, also when the loss
\* is detected by the unique constraint at save time.
C8_UniqueAndConflict ==
    /\ \A i, j \in 1..Len(users) : users[i].username = users[j].username => i = j
    /\ (resp.op = "register" /\ resp.at = "save" /\ resp.status # 201) => resp.status = 409

\* C9: a /register with a missing or empty username or password is answered
\* 400, is not carried on to the save, and leaves the store unchanged.
C9_RegisterValidation ==
    [][/\ \A s \in Slots :
              (reqs[s].pc = "idle" /\ reqs'[s].pc = "save") =>
                  /\ reqs'[s].in.username \notin {Undefined, ""}
                  /\ reqs'[s].in.password \notin {JsUndefined, JsString("")}
       /\ (resp = NoResp /\ resp'.op = "register" /\ resp'.at # "save"
               /\ (\/ resp'.in.username \in {Undefined, ""}
                   \/ resp'.in.password \in {JsUndefined, JsString("")})) =>
              (resp'.status = 400 /\ users' = users)
      ]_vars

\* C9 witness: with a user stored, a /register without a password has been
\* answered 400.
C9_MissingFieldAnswered ==
    /\ resp.op = "register"
    /\ resp.status = 400
    /\ resp.in.password = JsUndefined
    /\ Len(users) > 0

\* C10: role normalization - a successful registration stores and returns
\* "admin" if the role sent is exactly "admin" and "user" otherwise; no role
\* value leads to a 400; every stored role is user or admin.
C10_RoleNormalized ==
    /\ \A i \in 1..Len(users) : users[i].role \in {"user", "admin"}
    /\ (resp.op = "register" /\ resp.status = 201) =>
           /\ resp.body.role = IF resp.in.role = "admin" THEN "admin" ELSE "user"
           /\ users[resp.body.id].role = resp.body.role
           /\ users[resp.body.id].username = resp.in.username
    /\ (resp.op = "register" /\ resp.status = 400) =>
           (resp.in.username \in {Undefined, ""} \/ resp.in.password \in {JsUndefined, JsString("")})

\* C10 witness: a registration sent with role "superadmin" has been answered
\* 201 with role "user".
C10_SuperadminBecomesUser ==
    /\ resp.op = "register"
    /\ resp.status = 201
    /\ resp.in.role = "superadmin"
    /\ resp.body.role = "user"

\* C11: a login with the username and password of a registered account is
\* answered 200 with an access token, a refresh token and the summary
\* {id, username, role} of that account, whatever registrations, logins,
\* refreshes and logouts were handled since the registration.
RegisteredWith(username, password) ==
    {i \in 1..Len(users) : /\ users[i].username = username
                            /\ password.js = "string"
                            /\ users[i].passwordHash = BcryptHash(password)}

C11_LoginAfterRegister ==
    resp.op = "login" =>
        \A i \in RegisteredWith(resp.in.username, resp.in.password) :
            /\ resp.status = 200
            /\ IsJwt(resp.body.accessToken)
            /\ IsJwt(resp.body.refreshToken)
            /\ resp.body.user = [id |-> users[i].id, username |-> users[i].username,
                                 role |-> users[i].role]

\* a login of the account answered 200 after a refresh has rotated the
\* refresh token of its session
C11_LoginAfterOtherTraffic ==
    /\ resp.op = "login"
    /\ resp.status = 200
    /\ RegisteredWith(resp.in.username, resp.in.password) # {}
    /\ spent # NoToken

\* C12: the two kinds of token are not interchangeable.  An access token the
\* service has issued is never accepted by /refresh-token (it is answered
\* 401 and never reaches the rotation), and a refresh token the service has
\* issued is never accepted as bearer token by the auth of /me and /logout.
IssuedAccessToken(t) == t \in issued /\ "username" \in DOMAIN t.jwt.claims
IssuedRefreshToken(t) == t \in issued /\ "type" \in DOMAIN t.jwt.claims

C12_TokenTypesSeparate ==
    /\ (resp.op = "refresh" /\ IssuedAccessToken(resp.in.refreshToken))
          => resp.status = 401
    /\ \A s \in Slots :
          reqs[s].pc = "rotate" => ~IssuedAccessToken(reqs[s].in.refreshToken)
    /\ (resp.op \in {"me", "logout"} /\ Len(resp.in.authorization) >= 2
           /\ IssuedRefreshToken(resp.in.authorization[2]))
          => resp.status = 401

\* /me answers 401 to a bearer refresh token that /refresh-token would
\* still verify
C12_RefreshTokenAsBearer ==
    /\ resp.op = "me"
    /\ resp.status = 401
    /\ Len(resp.in.authorization) >= 2
    /\ resp.in.authorization[1] = JsString("Bearer")
    /\ IssuedRefreshToken(resp.in.authorization[2])
    /\ JwtVerify(resp.in.authorization[2], REFRESH_TOKEN_SECRET) = "ok"

\* C13: auth answers 401, and the handler behind it does not run, whenever
\* the Authorization header is absent or not of the form "Bearer <token>"
\* (empty, a single word, a scheme other than Bearer) and whenever the token
\* fails the verification as access token.
BearerForm(h) == Len(h) = 2 /\ h[1] = JsString("Bearer") /\ ~Falsy(h[2])

C13_AuthRejects ==
    resp.op \in {"me", "logout"} =>
        LET h == resp.in.authorization IN
        (~BearerForm(h) \/ JwtVerify(h[2], ACCESS_TOKEN_SECRET) = "throw")
            => resp.status = 401

\* C14: the round trip of an access token.  Verified before ACCESS_TOKEN_TTL
\* has elapsed since it was issued, an issued access token is accepted and
\* its claims sub, username and role are those of the user it was issued
\* for; once ACCESS_TOKEN_TTL has elapsed the verification fails and the
\* protected routes /me and /logout answer 401 to it.
Age(t) == now - t.jwt.iat

C14_AccessTokenRoundTrip ==
    /\ \A t \in issued :
          IssuedAccessToken(t) =>
              IF Age(t) < ACCESS_TOKEN_TTL
              THEN /\ JwtVerify(t, ACCESS_TOKEN_SECRET) = "ok"
                   /\ \E i \in 1..Len(users) :
                         /\ t.jwt.claims.sub = users[i].id
                         /\ t.jwt.claims.username = users[i].username
                         /\ t.jwt.claims.role = users[i].role
              ELSE JwtVerify(t, ACCESS_TOKEN_SECRET) = "throw"
    /\ resp.op \in {"me", "logout"} =>
          LET h == resp.in.authorization IN
          (BearerForm(h) /\ IssuedAccessToken(h[2])) =>
              resp.status = IF Age(h[2]) < ACCESS_TOKEN_TTL THEN 200 ELSE 401

\* /me answers 401 to the access token of an admin whose TTL has elapsed
C14_ExpiredAccessTokenRejected ==
    /\ resp.op = "me"
    /\ resp.status = 401
    /\ BearerForm(resp.in.authorization)
    /\ IssuedAccessToken(resp.in.authorization[2])
    /\ resp.in.authorization[2].jwt.claims.role = "admin"
    /\ Age(resp.in.authorization[2]) >= ACCESS_TOKEN_TTL

\* C15: no response body of /register, /login, /me, /refresh-token and
\* /logout carries a passwordHash or a refreshTokenHash, neither at the top
\* nor inside its user summary, and the store never holds a refresh token
\* itself, only null or the bcrypt hash of one.
BodyKeys(body) ==
    DOMAIN body \cup (IF "user" \in DOMAIN body THEN DOMAIN body.user ELSE {})

C15_SecretsStayInside ==
    /\ resp # NoResp =>
          /\ BodyKeys(resp.body) \cap {"passwordHash", "refreshTokenHash"} = {}
          /\ \A f \in DOMAIN resp.body \cap {"accessToken", "refreshToken"} :
                "alg" \notin DOMAIN resp.body[f]
    /\ \A i \in 1..Len(users) :
          /\ ~IsJwt(users[i].refreshTokenHash)
          /\ users[i].refreshTokenHash \notin issued
          /\ users[i].refreshTokenHash.alg \in {"null", "bcrypt"}

\* /me answers 200 with the profile of a user whose row holds both hashes
C15_ProfileOfLoggedInUser ==
    /\ resp.op = "me"
    /\ resp.status = 200
    /\ "id" \in DOMAIN resp.body
    /\ users[resp.body.id].refreshTokenHash # NullHash
    /\ users[resp.body.id].passwordHash.alg = "bcrypt"

\* C16: login, refresh and logout change nothing in the store but the
\* refreshTokenHash of the user they act for.  In every step of the service
\* the rows that exist keep their id, username, passwordHash and role, no
\* row disappears, and a row whose refreshTokenHash changes is the row of
\* the user of the login, refresh or logout answered 200 in that step.
ActingUser(r) ==
    IF r.op = "login" THEN r.body.user.id
    ELSE IF r.op = "refresh" THEN SubOf(r.in.refreshToken)
    ELSE SubOf(SecondPart(r.in.authorization))

C16_SessionFrame ==
    [][/\ Len(users') >= Len(users)
       /\ \A i \in 1..Len(users) :
             /\ users'[i].id = users[i].id
             /\ users'[i].username = users[i].username
             /\ users'[i].passwordHash = users[i].passwordHash
             /\ users'[i].role = users[i].role
             /\ users'[i].refreshTokenHash # users[i].refreshTokenHash =>
                   /\ resp'.op \in {"login", "refresh", "logout"}
                   /\ resp'.status = 200
                   /\ ActingUser(resp') = users[i].id
                   /\ resp'.op = "login" => resp'.in.username = users[i].username]_vars

\* a logout answered 200 has cleared the hash of its user while the other
\* user keeps a session
C16_LogoutBesideOtherSession ==
    /\ resp.op = "logout"
    /\ resp.status = 200
    /\ Len(users) = 2
    /\ \E i, j \in 1..Len(users) :
          /\ i = ActingUser(resp)
          /\ j # i
          /\ users[i].refreshTokenHash = NullHash
          /\ users[j].refreshTokenHash # NullHash

\* C17: no partial success.  A step that answers /register, /login or
\* /refresh-token with an error status, and a step that only takes a request
\* up, leaves every user row as it was; a step that changes a row composes a
\* 200 or 201 response; and a login or refresh answered 200 returns the
\* refresh token that matches the hash the step has stored for its user.
C17_NoPartialSuccess ==
    [][/\ (resp'.op \in {"register", "login", "refresh"} /\ resp'.status >= 400)
            => users' = users
       /\ resp' = NoResp => users' = users
       /\ users' # users => resp'.status \in {200, 201}
       /\ (resp'.op \in {"login", "refresh"} /\ resp'.status = 200) =>
             /\ ActingUser(resp') \in 1..Len(users')
             /\ BcryptCompare(resp'.body.refreshToken,
                              users'[ActingUser(resp')].refreshTokenHash) = "true"]_vars

\* a login with a wrong password is answered 401 while the account holds
\* the hash of a session
C17_FailedLoginBesideSession ==
    /\ resp.op = "login"
    /\ resp.status = 401
    /\ \E i \in 1..Len(users) :
          /\ users[i].username = resp.in.username
          /\ users[i].refreshTokenHash # NullHash

\* C18: product mutations are admin-only.  A create, update or delete changes
\* the product store only when the request carries an access token that
\* verifies and whose role is "admin"; without a token or with an invalid
\* one the answer is 401, with a valid token of another role 403, and the
\* store is unchanged in both cases.  The GET routes answer without a token.
C18_MutationsAdminOnly ==
    [][/\ resp'.op \in {"product.create", "product.update", "product.delete"} =>
             LET h == resp'.in.authorization IN
             /\ products' # products =>
                   (ProductAuth(h) = "ok" /\ RoleOf(SecondPart(h)) = "admin")
             /\ ProductAuth(h) # "ok" => (resp'.status = 401 /\ products' = products)
             /\ (ProductAuth(h) = "ok" /\ RoleOf(SecondPart(h)) # "admin") =>
                   (resp'.status = 403 /\ products' = products)
       /\ resp'.op \in {"product.list", "product.get"} => resp'.status \in {200, 404}]_vars

\* C19 as stated: the authorizer answers isAuthorized = true only for a
\* header that starts with "Bearer " and whose token verifies under the
\* function's ACCESS_TOKEN_SECRET; the context is then the token's sub,
\* username and role; every other answer is isAuthorized = false with a
\* context of a reason only.
Verifies(token) ==
    /\ IsJwt(token)
    /\ token.jwt.secret = env.lambdaSecret
    /\ now < token.jwt.exp

C19_AuthorizerBearerOnly ==
    resp.op = "authorize" =>
        LET h == AuthHeader(resp.in) IN
        IF resp.body.isAuthorized
        THEN /\ Len(h) >= 2
             /\ h[1] = JsString("Bearer")
             /\ Verifies(SliceToken(h))
             /\ resp.body.context =
                    [sub |-> SliceToken(h).jwt.claims.sub,
                     username |-> SliceToken(h).jwt.claims.username,
                     role |-> SliceToken(h).jwt.claims.role]
        ELSE DOMAIN resp.body.context = {"reason"}

\* C19 (amended): the authorizer answers isAuthorized = true exactly for a
\* header that starts with the word Bearer in any letter case followed by a
\* space and whose token verifies under the function's ACCESS_TOKEN_SECRET
\* (signature and expiry); the context is then the token's sub, username
\* and role; every other answer is isAuthorized = false with a context of a
\* reason only.
AnyCaseBearer(h) ==
    Len(h) >= 2 /\ h[1] \in {JsString("Bearer"), JsString("bearer"), JsString("BEARER")}

C19_AuthorizerAnyCaseBearer ==
    resp.op = "authorize" =>
        LET h == AuthHeader(resp.in) IN
        /\ resp.body.isAuthorized = (AnyCaseBearer(h) /\ Verifies(SliceToken(h)))
        /\ IF resp.body.isAuthorized
           THEN resp.body.context =
                    [sub |-> SliceToken(h).jwt.claims.sub,
                     username |-> SliceToken(h).jwt.claims.username,
                     role |-> SliceToken(h).jwt.claims.role]
           ELSE DOMAIN resp.body.context = {"reason"}

\* the authorizer has let a request with a lower-case scheme through
C19_LowerCaseSchemeAuthorized ==
    /\ resp.op = "authorize"
    /\ resp.body.isAuthorized
    /\ AuthHeader(resp.in)[1] = JsString("bearer")
    /\ resp.body.context.role = "admin"

\* C20: client auto-refresh.  When a send of a request is answered 401 (for
\* the first time for that request) and a refresh token is stored, the
\* interceptor calls /api/users/refresh-token once; when that call succeeds
\* it stores the returned access and refresh token and sends the request
\* once more with the new access token; when no refresh token is stored or
\* the refresh call fails, accessToken, refreshToken and user are removed
\* and the request is rejected.  No request makes more than one refresh
\* call, and none is sent more than once again because of a 401.
Seen(c, answer) == \E k \in 1..Len(c.got) : c.got[k] = answer

C20_AutoRefresh ==
    [][\A r \in Calls :
         LET c == calls[r]
             d == calls'[r]
         IN
         /\ (c.pc = "sent" /\ d.got = Append(c.got, "401") /\ ~Seen(c, "401")) =>
               IF storage.refreshToken # JsNull
               THEN d.pc = "refreshing" /\ d.refreshes = c.refreshes + 1
               ELSE d.pc = "rejected" /\ storage' = ClearTokens
         /\ (c.pc = "refreshing" /\ d.pc # "refreshing") =>
               IF d.refreshGot = "200"
               THEN /\ d.pc = "sent"
                    /\ d.sends = c.sends + 1
                    /\ storage'.accessToken = d.auth
                    /\ storage'.accessToken \notin {JsNull, storage.accessToken}
                    /\ storage'.refreshToken \notin {JsNull, storage.refreshToken}
               ELSE d.pc = "rejected" /\ storage' = ClearTokens
         /\ d.refreshes <= 1
         /\ (Seen(c, "401") /\ d.sends > c.sends) => c.pc = "refreshing"]_vars

\* C21: every /refresh-token answered 200 returns a refresh token different
\* from the one presented, and every /login answered 200 returns a refresh
\* token different from every refresh token issued before, also when the two
\* are signed in the same clock second.
C21_FreshRefreshToken ==
    [][/\ (resp'.op = "refresh" /\ resp'.status = 200) =>
             resp'.body.refreshToken # resp'.in.refreshToken
       /\ (resp'.op = "login" /\ resp'.status = 200) =>
             resp'.body.refreshToken \notin issued]_vars

\* C22: the comparison with the stored hash is exact.  For all refresh
\* tokens t and t2 the service has issued for one user,
\* bcrypt.compare(t, bcrypt.hash(t2)) is true only if t = t2.
C22_CompareExact ==
    \A id \in 1..Len(users) :
        \A t, t2 \in IssuedRefreshTokens(id) :
            BcryptCompare(t, BcryptHash(t2)) = "true" => t = t2

\* C23: once a /logout of a user has been answered 200, the user's
\* refreshTokenHash is null until the next successful login of that user,
\* whatever refresh requests were in flight when the logout was handled.
C23_LogoutStaysNull ==
    \A id \in loggedOut : Stored(id) = NullHash

\* C24: from its registration until its first successful login a user's
\* refreshTokenHash is null, and no /refresh-token for that user passes the
\* checks of the handler (so none is answered 200), whatever token is
\* presented.  A user for whom no token has been issued has not logged in.
NeverLoggedIn(id) == \A t \in issued : t.jwt.claims.sub # id

C24_NullUntilFirstLogin ==
    \A i \in 1..Len(users) :
        NeverLoggedIn(users[i].id) =>
            /\ users[i].refreshTokenHash = NullHash
            /\ \A s \in Slots : reqs[s].pc = "rotate" => reqs[s].user.id # users[i].id
            /\ (resp.op = "refresh" /\ SubOf(resp.in.refreshToken) = users[i].id)
                  => resp.status = 401

\* a refresh token made up for a registered user who has not logged in yet
\* is answered 401
C24_RefreshBeforeFirstLogin ==
    /\ resp.op = "refresh"
    /\ resp.status = 401
    /\ IsJwt(resp.in.refreshToken)
    /\ SubOf(resp.in.refreshToken) \in 1..Len(users)
    /\ NeverLoggedIn(SubOf(resp.in.refreshToken))

\* C25: auth decides from the token and the clock alone.  No step that
\* leaves the clock where it is changes the outcome of auth for any header,
\* whatever it does to the store; an issued access token presented as
\* Bearer before its expiry is answered 200 by /me and /logout, also after
\* a logout, a later login or a rotation.
C25_AuthIgnoresStore ==
    [][/\ now' = now => \A h \in HeaderInputs : Auth(h)' = Auth(h)
       /\ resp'.op \in {"me", "logout"} =>
             LET h == resp'.in.authorization IN
             (BearerForm(h) /\ IssuedAccessToken(h[2]) /\ now < h[2].jwt.exp)
                 => resp'.status = 200]_vars

\* /me answers 200 to the access token of a user who has logged out
C25_AccessTokenOutlivesLogout ==
    /\ resp.op = "me"
    /\ resp.status = 200
    /\ SubOf(SecondPart(resp.in.authorization)) \in loggedOut
    /\ Stored(SubOf(SecondPart(resp.in.authorization))) = NullHash

\* C27: client network retry.  A request that keeps failing with a network
\* error is sent again up to 3 times, the n-th time after a wait of 2^n
\* seconds, and is toasted and rejected only after the third of these has
\* failed too; no request is sent again more than 3 times.
OnlyNetworkErrors(c) == \A k \in 1..Len(c.got) : c.got[k] = "network"

C27_NetworkRetry ==
    [][\A r \in Calls :
         LET c == calls[r]
             d == calls'[r]
         IN
         /\ (c.pc = "sent" /\ d.pc = "backoff") => d.delay = 2 ^ Len(d.got) * 1000
         /\ (c.pc = "sent" /\ d.pc = "rejected" /\ OnlyNetworkErrors(d)) =>
               (Len(d.got) = 4 /\ d.sends = 4 /\ d.toast # "")
         /\ d.retryCount <= 3]_vars

\* C26: concurrent refreshes of one client.  Two requests of one logged-in
\* client are answered 401 and each posts the refresh token it read from
\* localStorage to /refresh-token.  No such refresh is answered 401 while the
\* posted token is unexpired, so clearTokens is not run by a refresh whose
\* token was still good, and whenever localStorage holds a refresh token that
\* is unexpired the server accepts it, and a stored access token that is
\* unexpired verifies.
RefreshedWith(r, t) == calls[r].refreshGot = "200" /\ calls[r].posted = t

C26_ConcurrentRefreshKeepsSession ==
    /\ \A r \in Calls :
          calls[r].refreshGot = "401" => now >= calls[r].posted.jwt.exp
    /\ (storage.refreshToken # JsNull /\ now < storage.refreshToken.jwt.exp) =>
          RefreshVerdict(storage.refreshToken) = "match"
    /\ (storage.accessToken # JsNull /\ now < storage.accessToken.jwt.exp) =>
          JwtVerify(storage.accessToken, ACCESS_TOKEN_SECRET) # "throw"

\* both calls posted the same token, both were answered 200, and the token
\* in localStorage is no longer the posted one
C26_BothRefreshed ==
    /\ calls["r1"].posted # JsNull
    /\ RefreshedWith("r1", calls["r1"].posted)
    /\ RefreshedWith("r2", calls["r1"].posted)
    /\ storage.refreshToken # JsNull
    /\ storage.refreshToken # calls["r1"].posted

\* C28: order isolation.  An order is stored only by a POST / answered 201,
\* with userId equal to the sub of the access token the request carried, a
\* token signed with the access secret, whatever the body names; a GET /
\* answered 200 returns exactly the stored orders whose userId is the sub of
\* the caller's token; a POST with a verified token whose items is not a
\* non-empty array is answered 400, a lookup answered 404 by the product
\* service ends the POST with 400, and no request answered other than 201
\* changes the stored orders.
CallerSub(r) == SecondPart(r.in.authorization).jwt.claims.sub

CallerVerified(r) ==
    /\ IsJwt(SecondPart(r.in.authorization))
    /\ SecondPart(r.in.authorization).jwt.secret = ACCESS_TOKEN_SECRET

C28_OrderIsolation ==
    [][/\ orders'.rows # orders.rows =>
             /\ resp'.op = "order.create" /\ resp'.status = 201
             /\ orders'.rows = orders.rows \cup {resp'.body}
             /\ resp'.body \notin orders.rows
             /\ CallerVerified(resp')
             /\ resp'.body.userId = CallerSub(resp')
             /\ ~ItemsInvalid(resp'.in.body.items)
       /\ (resp = NoResp /\ resp'.op = "order.list" /\ resp'.status = 200) =>
             /\ CallerVerified(resp')
             /\ resp'.body = {row \in orders.rows : row.userId = CallerSub(resp')}
       /\ (resp = NoResp /\ resp'.op = "order.list" /\ resp'.status # 200) =>
             OrderAuth(resp'.in.authorization) # "ok"
       /\ (resp = NoResp /\ resp'.op = "order.create"
             /\ OrderAuth(resp'.in.authorization) = "ok"
             /\ orders.pending = NoOrder) =>
             resp'.status = 400
       /\ (orders.pending # NoOrder /\ orders'.pending # orders.pending
             /\ Len(orders.pending.priced) < Len(orders.pending.items)
             /\ orders.pending.items[Len(orders.pending.priced) + 1].productId
                   \notin ProductIds) =>
             (resp'.op = "order.create" /\ resp'.status = 400
                 /\ orders'.rows = orders.rows)
       /\ \A row \in orders.rows : row \in orders'.rows]_vars

\* a GET / answered with the caller's order while the table also holds an
\* order of the other user
C28_ListBesideOtherUsersOrder ==
    /\ resp # NoResp
    /\ resp.op = "order.list"
    /\ resp.status = 200
    /\ resp.body # {}
    /\ resp.body # orders.rows
    /\ \E row \in orders.rows : row.userId # CallerSub(resp)

\* C29: Lambda gateway dispatch.  An OPTIONS event is answered 200, a path
\* of /health or / is answered 200, a path under none of the three prefixes
\* is answered 404, all three without an upstream call; every other event
\* makes exactly one upstream call, to the service of the prefix with the
\* prefix taken off the path, and is answered with the upstream's status,
\* with 502 when the upstream gave no response and with 500 on any other
\* failure.  Every event is answered.
Routed(path) ==
    Len(path) >= 1 /\ path[1] \in {"/api/users", "/api/products", "/api/orders"}

ServiceOf(path) ==
    IF path[1] = "/api/users" THEN "USERS_URL"
    ELSE IF path[1] = "/api/products" THEN "PRODUCTS_URL"
    ELSE "ORDERS_URL"

C29_GatewayDispatch ==
    (resp # NoResp /\ resp.op = "gateway") =>
        IF resp.in.httpMethod = "OPTIONS" THEN resp.status = 200 /\ resp.upstream = <<>>
        ELSE IF resp.in.path \in {<<"/health">>, <<"/">>}
        THEN resp.status = 200 /\ resp.upstream = <<>>
        ELSE IF ~Routed(resp.in.path) THEN resp.status = 404 /\ resp.upstream = <<>>
        ELSE /\ Len(resp.upstream) = 1
             /\ resp.upstream[1].url = ServiceOf(resp.in.path)
             /\ resp.upstream[1].path = Tail(resp.in.path)
             /\ resp.outcome.kind = "status" => resp.status = resp.outcome.status
             /\ resp.outcome.kind = "silent" => resp.status = 502
             /\ resp.outcome.kind = "failure" => resp.status = 500

\* an error status of the product service handed through for a path whose
\* rest repeats nothing of the prefix
C29_UpstreamErrorPassedOn ==
    /\ resp # NoResp
    /\ resp.op = "gateway"
    /\ resp.in.path = <<"/api/products", "/1">>
    /\ resp.outcome = [kind |-> "status", status |-> 404]
    /\ resp.status = 404
    /\ Len(resp.upstream) = 1

\* C30: cart invariant.  The cart holds at most one entry per productId and
\* every entry has 1 <= qty <= stock.
C30_CartInvariant ==
    /\ \A j, k \in 1..Len(cart) : cart[j].productId = cart[k].productId => j = k
    /\ \A k \in 1..Len(cart) : 1 <= cart[k].qty /\ cart[k].qty <= cart[k].stock
=============================================================================
